---- MODULE Spec2Model ----
(***************************************************************************)
(* Model of read-excel.py: a script that opens the workbook               *)
(* 'controll offers.xlsx', reports every sheet on the console and dumps   *)
(* the data rows of every non-empty sheet to <sheet>_data.json.           *)
(*                                                                         *)
(* The workbook found at the input path, the console, the working         *)
(* directory and the script's own variables are the state.  Values that   *)
(* openpyxl hands out (str, int, bool, None, datetime) are tagged records, *)
(* a Python dict is the sequence of its items in insertion order, and a   *)
(* JSON document is the sequence of its objects, each a sequence of       *)
(* <<key text, value token>> members.                                      *)
(***************************************************************************)
EXTENDS Integers, Sequences, FiniteSets, TLC

VARIABLES input, wb, pc, idx, sheet_name, rows, headers, data, output_file,
          f, disk, out, e, status

vars == <<input, wb, pc, idx, sheet_name, rows, headers, data, output_file,
          f, disk, out, e, status>>

(***************************************************************************)
(* Bounds of the explored inputs.                                          *)
(***************************************************************************)
MaxSheets == 2
MaxRows == 2
MaxCols == 2

(***************************************************************************)
(* Cell values.                                                            *)
(***************************************************************************)
PyStr(s) == [t |-> "str", v |-> s]
PyInt(n) == [t |-> "int", v |-> n]
PyBool(b) == [t |-> "bool", v |-> b]
PyNone == [t |-> "NoneType"]
PyDateTime(s) == [t |-> "datetime", v |-> s]

Min(a, b) == IF a <= b THEN a ELSE b

\* the number a bool or int compares as (True == 1, False == 0)
NumVal(c) == IF c.t = "bool" THEN (IF c.v THEN 1 ELSE 0) ELSE c.v

\* == on dict keys, with hash equality: 1 == True, None == None, "1" != 1
PyEq(a, b) ==
  IF a.t \in {"int", "bool"} /\ b.t \in {"int", "bool"}
  THEN NumVal(a) = NumVal(b)
  ELSE a.t = b.t /\ a = b

\* str(x) of a value
str(c) ==
  CASE c.t = "str" -> c.v
    [] c.t = "int" -> ToString(c.v)
    [] c.t = "bool" -> (IF c.v THEN "True" ELSE "False")
    [] c.t = "NoneType" -> "None"
    [] c.t = "datetime" -> c.v

(***************************************************************************)
(* dict(zip(headers, row))                                                 *)
(***************************************************************************)
\* itertools.zip_longest in place of zip
ZipLongest(hs, row) ==
  [i \in 1..Len(hs) |-> <<hs[i], IF i <= Len(row) THEN row[i] ELSE PyNone>>]

zip(hs, row) == [i \in 1..Min(Len(hs), Len(row)) |-> <<hs[i], row[i]>>]

HasKey(d, k) == \E i \in 1..Len(d) : PyEq(d[i][1], k)

\* d[k] = v: an equal key keeps its place and its first spelling
SetItem(d, k, v) ==
  IF HasKey(d, k)
  THEN [i \in 1..Len(d) |-> IF PyEq(d[i][1], k) THEN <<d[i][1], v>> ELSE d[i]]
  ELSE Append(d, <<k, v>>)

RECURSIVE dict(_)
dict(pairs) ==
  IF pairs = <<>> THEN <<>>
  ELSE LET n == Len(pairs)
       IN SetItem(dict(SubSeq(pairs, 1, n - 1)), pairs[n][1], pairs[n][2])

Record(hs, row) == dict(zip(hs, row))

(***************************************************************************)
(* json.dump(data, f, indent=2, default=str)                               *)
(***************************************************************************)
\* keys the encoder accepts: str, int, float, bool or None (default= is
\* never consulted for keys)
KeyOK(k) == k.t \in {"str", "int", "bool", "NoneType"}

\* the text a key is written as
JsonKey(k) ==
  CASE k.t = "str" -> k.v
    [] k.t = "int" -> ToString(k.v)
    [] k.t = "bool" -> (IF k.v THEN "true" ELSE "false")
    [] k.t = "NoneType" -> "null"

\* the token a value is written as; anything the encoder does not know goes
\* through default=str and is written as a string
JsonValue(c) ==
  CASE c.t = "str" -> [j |-> "string", lit |-> c.v]
    [] c.t = "int" -> [j |-> "number", lit |-> ToString(c.v)]
    [] c.t = "bool" -> [j |-> "literal", lit |-> (IF c.v THEN "true" ELSE "false")]
    [] c.t = "NoneType" -> [j |-> "literal", lit |-> "null"]
    [] OTHER -> [j |-> "string", lit |-> str(c)]

DictOK(d) == \A i \in 1..Len(d) : KeyOK(d[i][1])

JsonObject(d) == [i \in 1..Len(d) |-> <<JsonKey(d[i][1]), JsonValue(d[i][2])>>]

\* the document json.dump writes for a list of dicts all of whose keys encode
JsonDoc(recs) == [i \in 1..Len(recs) |-> JsonObject(recs[i])]

\* first dict with a key the encoder rejects (0: none)
FirstBad(recs) ==
  IF \A i \in 1..Len(recs) : DictOK(recs[i]) THEN 0
  ELSE CHOOSE i \in 1..Len(recs) :
         /\ ~DictOK(recs[i])
         /\ \A m \in 1..(i - 1) : DictOK(recs[m])

\* members of a dict written before its first rejected key
GoodPrefix(d) ==
  LET b == CHOOSE i \in 1..Len(d) :
             ~KeyOK(d[i][1]) /\ \A m \in 1..(i - 1) : KeyOK(d[m][1])
  IN JsonObject(SubSeq(d, 1, b - 1))

\* what has reached the file when the encoder raises TypeError: the objects
\* before the offending dict, and of that dict the members before the key
TypeErrorPrefix(recs) ==
  LET b == FirstBad(recs)
  IN Append(JsonDoc(SubSeq(recs, 1, b - 1)), GoodPrefix(recs[b]))

(***************************************************************************)
(* Files                                                                   *)
(***************************************************************************)
Suffix == <<"_", "d", "a", "t", "a", ".", "j", "s", "o", "n">>

\* name.replace(" ", "_")
Replace(name) == [i \in 1..Len(name) |-> IF name[i] = " " THEN "_" ELSE name[i]]

OutputFile(name) == Replace(name) \o Suffix

NoFile == [exists |-> FALSE, objs |-> <<>>, complete |-> FALSE]

\* a file just opened with mode 'w': created or truncated, nothing in it
Truncated == [exists |-> TRUE, objs |-> <<>>, complete |-> FALSE]

Partial(objs) == [exists |-> TRUE, objs |-> objs, complete |-> FALSE]

\* a dump that returns before its last write is out
WrittenUnfinished(objs) == [exists |-> TRUE, objs |-> objs, complete |-> FALSE]

Written(objs) == [exists |-> TRUE, objs |-> objs, complete |-> TRUE]

\* rows[0:] in place of rows[1:]
DataRowsAll(rs) == rs

\* rows[1:] and rows[1:11]
DataRows(rs) == SubSeq(rs, 2, Len(rs))

SampleEnd == 11

SampleRows(rs) == SubSeq(rs, 2, Min(SampleEnd, Len(rs)))

\* with-block exit: the handle is closed on every way out
WithExit(fs, name) == fs \ {name}

(***************************************************************************)
(* Inputs: what is found at the input path                                 *)
(***************************************************************************)
SheetNames == { <<"A", " ", "B">>, <<"A", "_", "B">>, <<"C">> }

FileNames == { OutputFile(n) : n \in SheetNames }

DateCell == PyDateTime("2024-01-01 00:00:00")

\* cells of the workbooks that vary in their sheets
StructCells == { PyInt(1), DateCell }

\* cells of the workbooks that vary in one sheet's header and data row
Cells == { PyStr("A"), PyStr("1"), PyInt(1), PyBool(TRUE), PyNone, DateCell }

SeqsUpTo(S, n) == UNION { [1..m -> S] : m \in 0..n }

Missing == [kind |-> "missing", sheets |-> <<>>]

Invalid == [kind |-> "invalid", sheets |-> <<>>]

Xlsx(sheets) == [kind |-> "xlsx", sheets |-> sheets]

\* sheet names are unique within a workbook, and a workbook has a sheet
UniqueNames(sheets) ==
  \A i, k \in 1..Len(sheets) : i # k => sheets[i].name # sheets[k].name

StructSheets ==
  [name : SheetNames, rows : SeqsUpTo([1..1 -> StructCells], MaxRows)]

StructInputs ==
  { Xlsx(ss) : ss \in { x \in SeqsUpTo(StructSheets, MaxSheets) :
                          Len(x) >= 1 /\ UniqueNames(x) } }

CellRows == SeqsUpTo(Cells, MaxCols)

CellInputs ==
  { Xlsx(<< [name |-> <<"C">>, rows |-> rs] >>) :
      rs \in {<<>>} \cup { <<h>> : h \in CellRows }
                    \cup { <<h, r>> : h \in CellRows, r \in CellRows } }

(***************************************************************************)
(* The script                                                              *)
(***************************************************************************)
\* status of a script that runs off its end
ExitSuccess == 0

\* sys.exit(0) in place of sys.exit(1)
ExitFailureZero == ExitSuccess

\* line 55: sys.exit(1)
ExitFailure == 1

Start ==
  /\ wb = <<>>
  /\ pc = "load"
  /\ idx = 0
  /\ sheet_name = <<>>
  /\ rows = <<>>
  /\ headers = <<>>
  /\ data = <<>>
  /\ output_file = <<>>
  /\ f = {}
  /\ disk = [n \in FileNames |-> NoFile]
  /\ out = <<>>
  /\ e = "none"
  /\ status = -1

Init == input \in {Missing, Invalid} \cup StructInputs /\ Start

InitCells == input \in {Missing} \cup CellInputs /\ Start

\* lines 8-13: load_workbook succeeds
LoadWorkbook ==
  /\ pc = "load"
  /\ input.kind = "xlsx"
  /\ wb' = input.sheets
  /\ out' = out \o << [line |-> "Reading file"],
                      [line |-> "Sheets found",
                       names |-> [i \in 1..Len(input.sheets) |-> input.sheets[i].name]] >>
  /\ pc' = "for"
  /\ UNCHANGED <<input, idx, sheet_name, rows, headers, data, output_file,
                 f, disk, e, status>>

\* lines 8-11: load_workbook raises (no such file, not a workbook)
LoadWorkbookRaises ==
  /\ pc = "load"
  /\ input.kind # "xlsx"
  /\ out' = Append(out, [line |-> "Reading file"])
  /\ e' = (IF input.kind = "missing" THEN "FileNotFoundError"
                                      ELSE "InvalidFileException")
  /\ pc' = "except"
  /\ UNCHANGED <<input, wb, idx, sheet_name, rows, headers, data, output_file,
                 f, disk, status>>

\* lines 15-18: the loop takes the next sheet name
NextSheet ==
  /\ pc = "for"
  /\ idx < Len(wb)
  /\ idx' = idx + 1
  /\ sheet_name' = wb[idx + 1].name
  /\ out' = out \o << [line |-> "Sheet", name |-> wb[idx + 1].name],
                      [line |-> "Separator"] >>
  /\ pc' = "iter_rows"
  /\ UNCHANGED <<input, wb, rows, headers, data, output_file, f, disk, e, status>>

\* line 21: rows = list(sheet.iter_rows(values_only=True))
ReadRows ==
  /\ pc = "iter_rows"
  /\ rows' = wb[idx].rows
  /\ pc' = "check"
  /\ UNCHANGED <<input, wb, idx, sheet_name, headers, data, output_file,
                 f, disk, out, e, status>>

\* line 21: reading the sheet raises (damaged sheet part)
ReadRowsRaises ==
  /\ pc = "iter_rows"
  /\ e' = "ReadError"
  /\ pc' = "except"
  /\ UNCHANGED <<input, wb, idx, sheet_name, rows, headers, data, output_file,
                 f, disk, out, status>>

\* lines 23-25 with a fall-through in place of continue
EmptySheetFallsThrough ==
  /\ pc = "check"
  /\ Len(rows) = 0
  /\ out' = Append(out, [line |-> "Empty sheet"])
  /\ output_file' = OutputFile(sheet_name)
  /\ data' = <<>>
  /\ pc' = "open"
  /\ UNCHANGED <<input, wb, idx, sheet_name, rows, headers, f, disk, e, status>>

\* lines 23-25: an empty sheet is announced and skipped
EmptySheet ==
  /\ pc = "check"
  /\ Len(rows) = 0
  /\ out' = Append(out, [line |-> "Empty sheet"])
  /\ pc' = "for"
  /\ UNCHANGED <<input, wb, idx, sheet_name, rows, headers, data, output_file,
                 f, disk, e, status>>

\* lines 28-44: report the sheet, build data, name the output file
ProcessRows ==
  /\ pc = "check"
  /\ Len(rows) # 0
  /\ headers' = rows[1]
  /\ LET hs == rows[1]
         shown == SelectSeq(hs, LAMBDA h : h # PyNone)
         sample == SampleRows(rows)
     IN out' = out \o << [line |-> "Columns",
                          names |-> [i \in 1..Len(shown) |-> str(shown[i])]],
                         [line |-> "Total rows", n |-> Len(rows)],
                         [line |-> "First 10 rows"] >>
                   \o [i \in 1..Len(sample) |->
                         [line |-> "Row", n |-> i, rec |-> Record(hs, sample[i])]]
  /\ data' = [i \in 1..Len(DataRows(rows)) |-> Record(rows[1], DataRows(rows)[i])]
  /\ output_file' = OutputFile(sheet_name)
  /\ pc' = "open"
  /\ UNCHANGED <<input, wb, idx, sheet_name, rows, f, disk, e, status>>

\* line 45: open(output_file, 'w') creates or truncates the file
OpenExport ==
  /\ pc = "open"
  /\ disk' = [disk EXCEPT ![output_file] = Truncated]
  /\ f' = f \cup {output_file}
  /\ pc' = "dump"
  /\ UNCHANGED <<input, wb, idx, sheet_name, rows, headers, data, output_file,
                 out, e, status>>

\* line 45: open raises (permission denied, read-only directory)
OpenExportRaises ==
  /\ pc = "open"
  /\ e' = "OSError"
  /\ pc' = "except"
  /\ UNCHANGED <<input, wb, idx, sheet_name, rows, headers, data, output_file,
                 f, disk, out, status>>

\* line 46: json.dump writes the whole document
JsonDump ==
  /\ pc = "dump"
  /\ FirstBad(data) = 0
  /\ disk' = [disk EXCEPT ![output_file] = Written(JsonDoc(data))]
  /\ pc' = "with_exit"
  /\ UNCHANGED <<input, wb, idx, sheet_name, rows, headers, data, output_file,
                 f, out, e, status>>

\* line 46: a dict key is not str, int, float, bool or None; the with block
\* closes the file on the way out
JsonDumpTypeError ==
  /\ pc = "dump"
  /\ FirstBad(data) # 0
  /\ disk' = [disk EXCEPT ![output_file] = Partial(TypeErrorPrefix(data))]
  /\ f' = WithExit(f, output_file)
  /\ e' = "TypeError"
  /\ pc' = "except"
  /\ UNCHANGED <<input, wb, idx, sheet_name, rows, headers, data, output_file,
                 out, status>>

\* line 46: a write fails (disk full) after k whole objects; the with block
\* closes the file on the way out
JsonDumpOSError ==
  /\ pc = "dump"
  /\ \E k \in 0..Len(data) :
       /\ FirstBad(data) = 0 \/ k < FirstBad(data)
       /\ disk' = [disk EXCEPT ![output_file] = Partial(JsonDoc(SubSeq(data, 1, k)))]
  /\ f' = WithExit(f, output_file)
  /\ e' = "OSError"
  /\ pc' = "except"
  /\ UNCHANGED <<input, wb, idx, sheet_name, rows, headers, data, output_file,
                 out, status>>

\* lines 45-47: the with block closes the file, the export is announced
CloseExport ==
  /\ pc = "with_exit"
  /\ f' = WithExit(f, output_file)
  /\ out' = Append(out, [line |-> "Data exported", file |-> output_file])
  /\ pc' = "for"
  /\ UNCHANGED <<input, wb, idx, sheet_name, rows, headers, data, output_file,
                 disk, e, status>>

\* lines 15, 49: the loop is exhausted, the script ends
Done ==
  /\ pc = "for"
  /\ idx = Len(wb)
  /\ out' = Append(out, [line |-> "Done"])
  /\ status' = ExitSuccess
  /\ pc' = "exit"
  /\ UNCHANGED <<input, wb, idx, sheet_name, rows, headers, data, output_file,
                 f, disk, e>>

\* lines 51-55: except Exception as e
Handler ==
  /\ pc = "except"
  /\ out' = out \o << [line |-> "Error", what |-> e], [line |-> "Traceback"] >>
  /\ status' = ExitFailure
  /\ pc' = "exit"
  /\ UNCHANGED <<input, wb, idx, sheet_name, rows, headers, data, output_file,
                 f, disk, e>>

Next ==
  \/ LoadWorkbook
  \/ LoadWorkbookRaises
  \/ NextSheet
  \/ ReadRows
  \/ ReadRowsRaises
  \/ EmptySheet
  \/ ProcessRows
  \/ OpenExport
  \/ OpenExportRaises
  \/ JsonDump
  \/ JsonDumpTypeError
  \/ JsonDumpOSError
  \/ CloseExport
  \/ Done
  \/ Handler

Spec == Init /\ [][Next]_vars

\* the interpreter always takes the next step
FairSpec == Init /\ [][Next]_vars /\ WF_vars(Next)

SpecCells == InitCells /\ [][Next]_vars

(***************************************************************************)
(* Vocabulary of the properties                                            *)
(***************************************************************************)
HasLine(kind) == \E k \in 1..Len(out) : out[k].line = kind

SheetReported(name) ==
  \E k \in 1..Len(out) : out[k].line = "Sheet" /\ out[k].name = name

ExportAnnounced(file) ==
  \E k \in 1..Len(out) : out[k].line = "Data exported" /\ out[k].file = file

SameValue(a, b) == a.t = b.t /\ a = b

(***************************************************************************)
(* json.load of an Export File (what a reader of the file gets back)       *)
(***************************************************************************)
Digits == 0..9

JsonLoadValue(tok) ==
  CASE tok.j = "string" -> PyStr(tok.lit)
    [] tok.j = "number" -> PyInt(CHOOSE n \in Digits : ToString(n) = tok.lit)
    [] tok.lit = "true" -> PyBool(TRUE)
    [] tok.lit = "false" -> PyBool(FALSE)
    [] OTHER -> PyNone

LoadedKeys(obj) == {obj[i][1] : i \in 1..Len(obj)}

\* value a decoded object holds under key text k: the last member wins
LoadedAt(obj, k) ==
  LET last == CHOOSE i \in 1..Len(obj) :
                obj[i][1] = k /\ \A m \in (i + 1)..Len(obj) : obj[m][1] # k
  IN JsonLoadValue(obj[last][2])

\* the document a sheet's rows stand for: one object per row after the first
SheetDoc(sh) ==
  [i \in 1..(Len(sh.rows) - 1) |-> JsonObject(Record(sh.rows[1], sh.rows[i + 1]))]

NonEmpty(i) == wb[i].rows # <<>>

\* the export of the current sheet has returned from json.dump
Exported == pc \in {"with_exit", "for"} /\ idx >= 1 /\ NonEmpty(idx)

\* sheets among the first n that write to file fn
Writers(fn, n) == { i \in 1..n : NonEmpty(i) /\ OutputFile(wb[i].name) = fn }

LastWriter(fn, n) == CHOOSE i \in Writers(fn, n) : \A k \in Writers(fn, n) : k <= i

\* file fn holds, whole, the document of the last of the first n sheets
\* that writes to it
HoldsLastOf(fn, n) ==
  /\ Writers(fn, n) # {}
  /\ disk[fn].complete
  /\ disk[fn].objs = SheetDoc(wb[LastWriter(fn, n)])

\* C1: after a successful run the Export Files correspond 1:1 to the
\* non-empty sheets: each non-empty sheet has its file, holding its own
\* records; no empty sheet has a file; there are as many files as non-empty
\* sheets.
C1_OneFilePerNonEmptySheet ==
  (pc = "exit" /\ status = 0) =>
    /\ \A i \in 1..Len(wb) :
         IF NonEmpty(i)
         THEN /\ disk[OutputFile(wb[i].name)].exists
              /\ disk[OutputFile(wb[i].name)].complete
              /\ disk[OutputFile(wb[i].name)].objs = SheetDoc(wb[i])
         ELSE ~disk[OutputFile(wb[i].name)].exists
    /\ Cardinality({fn \in FileNames : disk[fn].exists})
         = Cardinality({i \in 1..Len(wb) : NonEmpty(i)})

C3_FailureKeepsEarlierExports ==
  (pc = "exit" /\ e # "none") =>
    /\ status = 1
    /\ Len(out) >= 2
    /\ out[Len(out) - 1].line = "Error"
    /\ out[Len(out)].line = "Traceback"
    /\ \A i \in (idx + 1)..Len(wb) :
         /\ ~SheetReported(wb[i].name)
         /\ ~disk[OutputFile(wb[i].name)].exists
    /\ \A i \in 1..(idx - 1) :
         NonEmpty(i) =>
           /\ disk[OutputFile(wb[i].name)].complete
           /\ disk[OutputFile(wb[i].name)].objs = SheetDoc(wb[i])
    /\ (e \in {"FileNotFoundError", "InvalidFileException"} =>
          \A fn \in FileNames : ~disk[fn].exists)

\* C4: every run ends, with status 0 or 1; status 0 exactly when all sheets
\* were processed and nothing was raised, status 1 exactly when an exception
\* reached the handler; the success line is printed last, after all sheets,
\* and never in a run that ends with status 1.
C4_StatusInv ==
  /\ (pc # "exit" => status = -1 /\ ~HasLine("Done"))
  /\ (pc = "exit" =>
        /\ status \in {0, 1}
        /\ (status = 0 <=> e = "none")
        /\ (status = 0 =>
              /\ idx = Len(wb)
              /\ \A i \in 1..Len(wb) : SheetReported(wb[i].name)
              /\ out[Len(out)].line = "Done")
        /\ (status = 1 => ~HasLine("Done") /\ HasLine("Error")))

\* C4: the run ends (pc = "exit") and the status relation above holds
\* throughout.
C4_ExitStatus == []C4_StatusInv /\ <>(pc = "exit")

C4_Witness == pc = "exit" /\ status = 1 /\ idx = 2 /\ ExportAnnounced(OutputFile(wb[1].name))

Primitive(c) == c.t \in {"str", "int", "bool", "NoneType"}

StrOrNumber(c) == c.t \in {"str", "int"}

\* C5: for a sheet of strings and numbers only, the decoded Export File
\* holds, for every data row r and column c the header and the row both
\* have, under the header name of column c the value read at (r, c).
C5_RoundTrip ==
  (Exported /\ \A r \in 1..Len(rows) : \A c \in 1..Len(rows[r]) : StrOrNumber(rows[r][c])) =>
    \A r \in 1..(Len(rows) - 1) :
      \A c \in 1..Min(Len(rows[1]), Len(rows[r + 1])) :
        LET obj == disk[output_file].objs[r]
            key == JsonKey(rows[1][c])
        IN /\ key \in LoadedKeys(obj)
           /\ SameValue(LoadedAt(obj, key), rows[r + 1][c])

\* C6: a Record built from a row with as many cells as the Header Row has
\* exactly one field per header position, in header order, null-named
\* positions included.
C6_AllPositionsKept ==
  (pc = "open") =>
    \A r \in 1..Len(data) :
      Len(rows[r + 1]) = Len(headers) =>
        /\ Len(data[r]) = Len(headers)
        /\ \A c \in 1..Len(headers) :
             /\ SameValue(data[r][c][1], headers[c])
             /\ SameValue(data[r][c][2], rows[r + 1][c])

\* C7 as stated: the cells of a longer row beyond the header are dropped;
\* for a shorter row every trailing header key is in the Record with null.
C7_ShortRowPaddedWithNull ==
  (pc = "open") =>
    \A r \in 1..Len(data) :
      LET row == rows[r + 1]
          rec == data[r]
      IN /\ Len(row) > Len(headers) =>
              \A i \in 1..Len(rec) :
                \E c \in 1..Len(headers) : SameValue(rec[i][2], row[c])
         /\ Len(row) < Len(headers) =>
              \A c \in (Len(row) + 1)..Len(headers) :
                \E i \in 1..Len(rec) :
                  PyEq(rec[i][1], headers[c]) /\ rec[i][2] = PyNone

\* C7 as amended: only the first min(#header entries, #cells) positions are
\* paired.  Every field of the Record has the key of a paired header
\* position and the cell under the last paired position with that key;
\* every paired position has a field; so the cells beyond the header are
\* dropped and the header positions beyond the row add no field (no null).
C7_PairsShortestOnly ==
  (pc = "open") =>
    \A r \in 1..Len(data) :
      LET row == rows[r + 1]
          rec == data[r]
          m == Min(Len(headers), Len(row))
      IN /\ \A i \in 1..Len(rec) :
              \E c \in 1..m :
                /\ PyEq(headers[c], rec[i][1])
                /\ SameValue(rec[i][2], row[c])
                /\ \A c2 \in (c + 1)..m : ~PyEq(headers[c2], rec[i][1])
         /\ \A c \in 1..m : HasKey(rec, headers[c])
         /\ \A i, k \in 1..Len(rec) : i # k => ~PyEq(rec[i][1], rec[k][1])

C7_Witness ==
  /\ pc = "open"
  /\ Len(data) = 1
  /\ Len(rows[2]) >= 1
  /\ Len(rows[2]) < Len(headers)
  /\ ~HasKey(data[1], headers[Len(headers)])

\* C8: the step that finds a sheet with zero rows prints the notice, raises
\* nothing, touches no file and goes on to the next sheet; a run that ends
\* with status 0 has reported every sheet and exported exactly the
\* non-empty ones, wherever the empty sheets are.
C8_EmptyStep ==
  (pc = "check" /\ Len(rows) = 0) =>
    /\ pc' = "for"
    /\ idx' = idx
    /\ out' = Append(out, [line |-> "Empty sheet"])
    /\ disk' = disk
    /\ f' = f
    /\ e = "none" /\ e' = "none"

C8_AfterRun ==
  (pc = "exit" /\ status = 0) =>
    /\ \A i \in 1..Len(wb) :
         /\ SheetReported(wb[i].name)
         /\ NonEmpty(i) =>
              /\ ExportAnnounced(OutputFile(wb[i].name))
              /\ disk[OutputFile(wb[i].name)].complete
    /\ Cardinality({k \in 1..Len(out) : out[k].line = "Data exported"})
         = Cardinality({i \in 1..Len(wb) : NonEmpty(i)})
    /\ Cardinality({k \in 1..Len(out) : out[k].line = "Empty sheet"})
         = Cardinality({i \in 1..Len(wb) : ~NonEmpty(i)})

\* C8: every step taken at an empty sheet is the skip above, and every run
\* that ends with status 0 has exported exactly the non-empty sheets.
C8_EmptySheetSkipped == [][C8_EmptyStep]_vars /\ []C8_AfterRun

C8_Witness ==
  /\ pc = "exit" /\ status = 0
  /\ Len(wb) >= 2
  /\ ~NonEmpty(1)
  /\ NonEmpty(Len(wb))
  /\ HasLine("Empty sheet")
  /\ disk[OutputFile(wb[Len(wb)].name)].complete

\* C9: serialization never fails on a cell value; in the Export File a
\* non-primitive value is the string of its canonical string form and a
\* primitive value is what it was.
C9_NonPrimitiveAsString ==
  /\ e # "TypeError"
  /\ Exported =>
       \A r \in 1..Len(data) :
         \A i \in 1..Len(data[r]) :
           LET tok == disk[output_file].objs[r][i][2]
               val == data[r][i][2]
           IN IF Primitive(val)
              THEN SameValue(JsonLoadValue(tok), val)
              ELSE tok = [j |-> "string", lit |-> str(val)]

\* states between two exports: no file of the current sheet is open yet
Between == pc \in {"for", "iter_rows", "check", "open"}

\* sheets whose processing is over
Finished == IF pc \in {"for", "exit"} /\ e = "none" THEN idx ELSE idx - 1

\* C10 as stated: at most one Export File is open; whenever the program is
\* between sheets or has terminated, with status 0 or 1, every Export File
\* on disk holds the complete Record list of its sheet.
C10_NoPartialFileEver ==
  /\ Cardinality(f) <= 1
  /\ (Between \/ pc = "exit") =>
       \A fn \in FileNames : disk[fn].exists => HoldsLastOf(fn, Finished)

\* C10 as amended: at most one Export File is open; whenever the program is
\* between sheets or has terminated with status 0, every Export File on
\* disk holds the complete Record list of the last sheet exported under
\* its name; after termination with status 1 that is so for every file but
\* the one the failing sheet writes to, which may be empty or partial.
C10_CompleteUnlessFailed ==
  /\ Cardinality(f) <= 1
  /\ (Between \/ (pc = "exit" /\ status = 0)) =>
       \A fn \in FileNames : disk[fn].exists => HoldsLastOf(fn, Finished)
  /\ (pc = "exit" /\ status = 1) =>
       \A fn \in FileNames :
         (disk[fn].exists /\ (idx = 0 \/ fn # OutputFile(wb[idx].name))) =>
           HoldsLastOf(fn, Finished)

C10_Witness ==
  /\ pc = "exit" /\ status = 1 /\ idx = 2
  /\ OutputFile(wb[1].name) # OutputFile(wb[2].name)
  /\ HoldsLastOf(OutputFile(wb[1].name), 1)
  /\ disk[OutputFile(wb[2].name)].exists
  /\ ~disk[OutputFile(wb[2].name)].complete

====
